---- MODULE Spec2Model ----
(***************************************************************************)
(* Model of wc (src/wc/src/main.rs): the Count record, the line-wise      *)
(* counting fold `count`, and the aggregation loop of `run`.              *)
(*                                                                         *)
(* An Option<usize> is modelled as a set of at most one natural number:   *)
(* None is {} and Some(v) is {v}.  A stream is a sequence of bytes; a     *)
(* String is the sequence of its UTF-8 bytes.                             *)
(***************************************************************************)
EXTENDS Integers, Sequences, FiniteSets, TLC

\* ---------------------------------------------------------------- bounds
\* most paths on the command line
MaxFiles == 2
\* most bytes in one input of a whole run (Spec)
MaxFileLen == 2
\* most bytes in the stream of the stream-counter specification (SpecCount)
MaxLen == 4

\* The bytes inputs are made of: LF, CR, space, 'a', and the two bytes of
\* U+00E9 (0xC3 0xA9).  A 0xC3 without its continuation byte, or a lone 0xA9,
\* is malformed UTF-8.
Bytes == {10, 13, 32, 97, 195, 169}

RECURSIVE SeqsUpTo(_, _)
SeqsUpTo(S, n) ==
    IF n = 0 THEN {<<>>}
    ELSE LET shorter == SeqsUpTo(S, n - 1)
         IN  shorter \cup {Append(s, b) : s \in {t \in shorter : Len(t) = n - 1}, b \in S}

\* path names, in command-line order
Names == <<"f1", "f2", "f3", "f4">>

\* ------------------------------------------------------------ Option<T>
None == {}
Some(v) == {v}
Unwrap(o) == CHOOSE v \in o : TRUE
OptZipAdd(a, b) == {x + y : x \in a, y \in b}

\* ------------------------------------------------------------ Count
\* Count::new
CountNew(a) ==
    IF ~(a.is_char \/ a.is_byte \/ a.is_line \/ a.is_word)
    THEN [lines |-> Some(0), chars |-> Some(0), words |-> Some(0)]
    ELSE [lines |-> IF a.is_line THEN Some(0) ELSE None,
          chars |-> IF a.is_char \/ a.is_byte THEN Some(0) ELSE None,
          words |-> IF a.is_word THEN Some(0) ELSE None]

\* CountAdd forgetting the lines accumulated so far
CountAddDropsLines(self, other) ==
    [chars |-> OptZipAdd(self.chars, other.chars),
     words |-> OptZipAdd(self.words, other.words),
     lines |-> other.lines]

\* impl Add for Count
CountAdd(self, other) ==
    [chars |-> OptZipAdd(self.chars, other.chars),
     words |-> OptZipAdd(self.words, other.words),
     lines |-> OptZipAdd(self.lines, other.lines)]

\* ------------------------------------------------------------ UTF-8
IsAscii(b) == b < 128
IsLead2(b) == b >= 194 /\ b <= 223
IsCont(b) == b >= 128 /\ b <= 191

Drop(s, n) == SubSeq(s, n + 1, Len(s))

\* core::str::from_utf8 succeeds (one- and two-byte sequences)
RECURSIVE Utf8Valid(_)
Utf8Valid(bs) ==
    IF bs = <<>> THEN TRUE
    ELSE IF IsAscii(bs[1]) THEN Utf8Valid(Drop(bs, 1))
    ELSE IF IsLead2(bs[1]) /\ Len(bs) >= 2 /\ IsCont(bs[2]) THEN Utf8Valid(Drop(bs, 2))
    ELSE FALSE

\* str::chars: the Unicode scalar values of a valid UTF-8 string
RECURSIVE StrChars(_)
StrChars(bs) ==
    IF bs = <<>> THEN <<>>
    ELSE IF IsAscii(bs[1]) THEN <<bs[1]>> \o StrChars(Drop(bs, 1))
    ELSE <<(bs[1] - 192) * 64 + (bs[2] - 128)>> \o StrChars(Drop(bs, 2))

\* char::is_whitespace: the Unicode White_Space code points
WhiteSpace ==
    {9, 10, 11, 12, 13, 32, 133, 160, 5760, 8232, 8233, 8239, 8287, 12288}
        \cup (8192 .. 8202)
IsWhitespace(c) == c \in WhiteSpace

\* ------------------------------------------------------------ BufRead::lines
\* index of the first LF of bs, 0 when there is none
FirstLF(bs) ==
    IF \E i \in 1 .. Len(bs) : bs[i] = 10
    THEN CHOOSE i \in 1 .. Len(bs) : bs[i] = 10 /\ \A j \in 1 .. (i - 1) : bs[j] # 10
    ELSE 0

\* Lines::next: read_line (read_until LF, reject malformed UTF-8), then strip
\* one trailing "\n" and, after it, one trailing "\r".
LinesNext(bs) ==
    IF bs = <<>> THEN [kind |-> "none", line |-> <<>>, rest |-> <<>>]
    ELSE LET p     == FirstLF(bs)
             n     == IF p = 0 THEN Len(bs) ELSE p
             buf   == SubSeq(bs, 1, n)
             rest  == Drop(bs, n)
             noLF  == IF buf[Len(buf)] = 10 THEN SubSeq(buf, 1, Len(buf) - 1) ELSE buf
             noCR  == IF buf[Len(buf)] = 10 /\ noLF # <<>> /\ noLF[Len(noLF)] = 13
                      THEN SubSeq(noLF, 1, Len(noLF) - 1) ELSE noLF
         IN  IF Utf8Valid(buf)
             THEN [kind |-> "ok", line |-> noCR, rest |-> rest]
             ELSE [kind |-> "err", line |-> <<>>, rest |-> rest]

\* ------------------------------------------------------------ count
\* WordStep not leaving the word at a whitespace character
WordStepNoReset(acc, c) ==
    IF IsWhitespace(c) THEN <<acc[1], acc[2]>>
    ELSE IF ~acc[2] THEN <<acc[1] + 1, TRUE>>
    ELSE <<acc[1], acc[2]>>

\* one step of the word fold: (words, is_word), c -> (words, is_word)
WordStep(acc, c) ==
    IF IsWhitespace(c) THEN <<acc[1], FALSE>>
    ELSE IF ~acc[2] THEN <<acc[1] + 1, TRUE>>
    ELSE <<acc[1], acc[2]>>

\* line.chars().fold((0, false), ...) over the characters cs, from the left
RECURSIVE WordFold(_, _)
WordFold(acc, cs) ==
    IF cs = <<>> THEN acc ELSE WordFold(WordStep(acc, cs[1]), Drop(cs, 1))

\* UnitLen counting scalar values whatever the flag
UnitLenScalars(line, is_char) == Len(StrChars(line))

\* the unit length of a line: line.chars().count() or line.len()
UnitLen(line, is_char) ==
    IF is_char THEN Len(StrChars(line)) ELSE Len(line)

\* CountLine counting lines from 0 when the lines metric is absent
CountLineRevivesLines(c, line, is_char) ==
    [chars |-> {v + 1 + UnitLen(line, is_char) : v \in c.chars},
     words |-> {v + WordFold(<<0, FALSE>>, StrChars(line))[1] : v \in c.words},
     lines |-> {(IF c.lines = None THEN 0 ELSE CHOOSE v \in c.lines : TRUE) + 1}]

\* the Ok(line) arm of the closure of count's try_fold
CountLine(c, line, is_char) ==
    [chars |-> {v + 1 + UnitLen(line, is_char) : v \in c.chars},
     words |-> {v + WordFold(<<0, FALSE>>, StrChars(line))[1] : v \in c.words},
     lines |-> {v + 1 : v \in c.lines}]

\* FoldBreak returning the Count folded so far as a success
FoldBreakKeepsPartial(c, nlines) ==
    [ok |-> TRUE, cnt |-> c, consumed |-> nlines]

\* what try_fold yields when a line fails to be read: Break(e), the Count
\* folded so far is dropped
FoldBreak(c, nlines) ==
    [ok |-> FALSE, cnt |-> c, consumed |-> nlines]

\* what try_fold yields at the end of the stream: Continue(cnt)
FoldEnd(c, nlines) ==
    [ok |-> TRUE, cnt |-> c, consumed |-> nlines]

\* count: reader.lines().try_fold(init_cnt, ...).  `ok` tells Ok from Err;
\* on Err, `cnt` and `consumed` record what had been folded when the read
\* failed (the code drops it).
RECURSIVE TryFold(_, _, _, _)
TryFold(bs, c, is_char, nlines) ==
    LET r == LinesNext(bs)
    IN  IF r.kind = "none" THEN FoldEnd(c, nlines)
        ELSE IF r.kind = "err" THEN FoldBreak(c, nlines)
        ELSE TryFold(r.rest, CountLine(c, r.line, is_char), is_char, nlines + 1)

Count(bs, init_cnt, is_char) == TryFold(bs, init_cnt, is_char, 0)

\* ------------------------------------------------------------ reference
\* The counts of a well-formed stream stated from its bytes, without the
\* line reader and without the folds (used by the properties only).
LFs(bs) == {i \in 1 .. Len(bs) : bs[i] = 10}

\* first byte of each line
RefStarts(bs) ==
    IF bs = <<>> THEN {} ELSE {1} \cup {i + 1 : i \in {j \in LFs(bs) : j < Len(bs)}}

\* last byte of the line starting at s, terminator ("\n" or "\r\n") excluded
RefEnd(bs, s) ==
    LET later == {i \in LFs(bs) : i >= s}
        lf    == IF later = {} THEN 0 ELSE CHOOSE i \in later : \A j \in later : i <= j
    IN  IF lf = 0 THEN Len(bs)
        ELSE IF lf - 1 >= s /\ bs[lf - 1] = 13 THEN lf - 2
        ELSE lf - 1

RefIsSpace(b) == b \in {9, 10, 11, 12, 13, 32}

\* number of maximal runs of non-whitespace in bs[s .. e]
RefRuns(bs, s, e) ==
    Cardinality({i \in s .. e : ~RefIsSpace(bs[i]) /\ (i = s \/ RefIsSpace(bs[i - 1]))})

\* unit length of bs[s .. e]: scalar values (bytes that start a character)
\* or bytes
RefUnits(bs, s, e, is_char) ==
    IF is_char THEN Cardinality({i \in s .. e : ~IsCont(bs[i])}) ELSE e - s + 1

RefNumLines(bs) == Cardinality(RefStarts(bs))
RefNumLFs(bs) == Cardinality(LFs(bs))

\* sum over the lines starting in S of the line's word count
RECURSIVE RefWordsOf(_, _)
RefWordsOf(bs, S) ==
    IF S = {} THEN 0
    ELSE LET s == CHOOSE y \in S : TRUE
         IN  RefRuns(bs, s, RefEnd(bs, s)) + RefWordsOf(bs, S \ {s})

\* sum over the lines starting in S of (unit length + 1)
RECURSIVE RefCharsOf(_, _, _)
RefCharsOf(bs, S, is_char) ==
    IF S = {} THEN 0
    ELSE LET s == CHOOSE y \in S : TRUE
         IN  RefUnits(bs, s, RefEnd(bs, s), is_char) + 1 + RefCharsOf(bs, S \ {s}, is_char)

RefWords(bs) == RefWordsOf(bs, RefStarts(bs))
RefChars(bs, is_char) == RefCharsOf(bs, RefStarts(bs), is_char)

\* the reference counts of a stream, every metric, both units of the chars slot
RefAll(bs) ==
    [lines |-> RefNumLines(bs), words |-> RefWords(bs),
     bytes |-> RefChars(bs, FALSE), uchars |-> RefChars(bs, TRUE)]

\* restricted to the metrics present in the Count c
RefFor(bs, c) ==
    LET r == RefAll(bs)
    IN  [lines |-> {r.lines : v \in c.lines}, words |-> {r.words : v \in c.words},
         bytes |-> {r.bytes : v \in c.chars}, uchars |-> {r.uchars : v \in c.chars}]

\* ------------------------------------------------------------ state
VARIABLES
    args,      \* the parsed command line: the four flags and the paths
    pc,        \* position of run/main: "start", "stdin", "files", "return", "done"
    idx,       \* index in args.files of the next path the fold takes
    total,     \* the accumulator of the fold over args.files
    out,       \* what was written so far, stdout rows and stderr messages, in order
    exit,      \* the process result: "running", "success" or "failure"
    content,   \* stream counter: the bytes of the stream being counted
    stream,    \* stream counter: the bytes not yet read
    cnt,       \* stream counter: the accumulator of try_fold
    cpc,       \* stream counter: "idle", "scan", "ok" (count returned Ok) or "err"
    consumed   \* stream counter: lines folded so far

vars == <<args, pc, idx, total, out, exit, content, stream, cnt, cpc, consumed>>
runVars == <<pc, idx, total, out, exit>>
countVars == <<content, stream, cnt, cpc, consumed>>

Flags == [is_char : BOOLEAN, is_byte : BOOLEAN, is_line : BOOLEAN, is_word : BOOLEAN]
ArgsOf(f, n) ==
    [is_char |-> f.is_char, is_byte |-> f.is_byte, is_line |-> f.is_line,
     is_word |-> f.is_word, files |-> SubSeq(Names, 1, n)]

\* a Count that does not exist (yet)
NoCount == [chars |-> None, words |-> None, lines |-> None]
NoRef == [lines |-> None, words |-> None, bytes |-> None, uchars |-> None]

\* ------------------------------------------------------------ run
\* An input as the file system presents it: a path that cannot be opened,
\* or one that opens on the given bytes.
Inputs ==
    {[open |-> FALSE, bytes |-> <<>>]}
        \cup {[open |-> TRUE, bytes |-> b] : b \in SeqsUpTo(Bytes, MaxFileLen)}

\* what becomes of an input, told from the input alone: it cannot be opened,
\* reading it fails (malformed UTF-8 somewhere), or it is read to completion
Fate(inp) ==
    IF ~inp.open THEN "unopened"
    ELSE IF Utf8Valid(inp.bytes) THEN "complete"
    ELSE "badread"

\* Written events.  kind "row" is a print_count line on stdout, kind "err" a
\* message on stderr; name is the name column (None for standard input) and
\* cnt the Count a row prints.  fate, consumed and ref are not output: they
\* record the fate of the input the event is about, how many lines count had
\* folded when it returned, and the reference counts of the input's bytes.
Row(name, c, fate, k, ref) ==
    [kind |-> "row", name |-> name, cnt |-> c, fate |-> fate, consumed |-> k, ref |-> ref]
ErrMsg(name, fate, k) ==
    [kind |-> "err", name |-> name, cnt |-> NoCount, fate |-> fate, consumed |-> k, ref |-> NoRef]

\* CountAndReport printing and folding the partial Count after the error
CountAndReportPartial(name, inp, a) ==
    LET r == Count(inp.bytes, CountNew(a), a.is_char)
    IN  IF r.ok
        THEN [item |-> Some(r.cnt),
              events |-> <<Row(name, r.cnt, Fate(inp), r.consumed, RefFor(inp.bytes, r.cnt))>>]
        ELSE [item |-> Some(r.cnt),
              events |-> <<ErrMsg(name, Fate(inp), r.consumed),
                           Row(name, r.cnt, Fate(inp), r.consumed, NoRef)>>]

\* count(..) then .inspect_err(eprintln).ok().inspect(print_count): the
\* Option<Count> left (item) and what was written (events)
CountAndReport(name, inp, a) ==
    LET r == Count(inp.bytes, CountNew(a), a.is_char)
    IN  IF r.ok
        THEN [item |-> Some(r.cnt),
              events |-> <<Row(name, r.cnt, Fate(inp), r.consumed, RefFor(inp.bytes, r.cnt))>>]
        ELSE [item |-> None, events |-> <<ErrMsg(name, Fate(inp), r.consumed)>>]

\* the filter_map closure of run for one path
OpenAndCount(name, inp, a) ==
    IF ~inp.open
    THEN [item |-> None, events |-> <<ErrMsg(Some(name), Fate(inp), 0)>>]
    ELSE CountAndReport(Some(name), inp, a)

\* run, up to the branch on args.files.is_empty()
Start ==
    /\ pc = "start"
    /\ IF args.files = <<>>
       THEN pc' = "stdin" /\ total' = total
       ELSE pc' = "files" /\ total' = CountNew(args)
    /\ UNCHANGED <<args, idx, out, exit, countVars>>

\* the standard-input branch of run
CountStdin ==
    /\ pc = "stdin"
    /\ \E inp \in {i \in Inputs : i.open} :
          out' = out \o CountAndReport(None, inp, args).events
    /\ pc' = "return"
    /\ UNCHANGED <<args, idx, total, exit, countVars>>

\* one turn of .filter_map(..).fold(Count::new(&args), Count::add)
FoldFile ==
    /\ pc = "files"
    /\ idx <= Len(args.files)
    /\ \E inp \in Inputs :
          LET r == OpenAndCount(args.files[idx], inp, args)
          IN  /\ out' = out \o r.events
              /\ total' = IF r.item = None THEN total ELSE CountAdd(total, Unwrap(r.item))
    /\ idx' = idx + 1
    /\ UNCHANGED <<args, pc, exit, countVars>>

\* PrintsTotal for any named input
PrintsTotalAnyFile(a) == Len(a.files) >= 1

\* whether run prints the total row
PrintsTotal(a) == Len(a.files) > 1

\* the end of the fold: the total row
FoldDone ==
    /\ pc = "files"
    /\ idx > Len(args.files)
    /\ out' = IF PrintsTotal(args)
              THEN Append(out, Row(Some("total"), total, "total", 0, NoRef))
              ELSE out
    /\ pc' = "return"
    /\ UNCHANGED <<args, idx, total, exit, countVars>>

\* the result of run as main sees it: Ok(()) on every path
RunResult(o) == "success"

\* run returns, main returns its result
Main ==
    /\ pc = "return"
    /\ exit' = RunResult(out)
    /\ pc' = "done"
    /\ UNCHANGED <<args, idx, total, out, countVars>>

Init ==
    /\ \E f \in Flags, n \in 0 .. MaxFiles : args = ArgsOf(f, n)
    /\ pc = "start"
    /\ idx = 1
    /\ total = NoCount
    /\ out = <<>>
    /\ exit = "running"
    /\ content = <<>> /\ stream = <<>> /\ cnt = NoCount /\ cpc = "idle" /\ consumed = 0

Next == Start \/ CountStdin \/ FoldFile \/ FoldDone \/ Main

Spec == Init /\ [][Next]_vars

\* ------------------------------------------------------------ count, stepwise
\* count(reader, Count::new(&args), args.is_char) on one stream, one turn of
\* try_fold per step.
InitCount ==
    /\ \E f \in Flags : args = ArgsOf(f, 0)
    /\ content \in SeqsUpTo(Bytes, MaxLen)
    /\ stream = content
    /\ cnt = CountNew(args)
    /\ cpc = "scan"
    /\ consumed = 0
    /\ pc = "stdin" /\ idx = 1 /\ total = NoCount /\ out = <<>> /\ exit = "running"

\* Lines::next yields Ok(line)
FoldLine ==
    /\ cpc = "scan"
    /\ LinesNext(stream).kind = "ok"
    /\ cnt' = CountLine(cnt, LinesNext(stream).line, args.is_char)
    /\ stream' = LinesNext(stream).rest
    /\ consumed' = consumed + 1
    /\ UNCHANGED <<args, content, cpc, runVars>>

\* Lines::next yields Err(e)
FoldErr ==
    /\ cpc = "scan"
    /\ LinesNext(stream).kind = "err"
    /\ cpc' = IF FoldBreak(cnt, consumed).ok THEN "ok" ELSE "err"
    /\ stream' = LinesNext(stream).rest
    /\ UNCHANGED <<args, content, cnt, consumed, runVars>>

\* Lines::next yields None
FoldEof ==
    /\ cpc = "scan"
    /\ LinesNext(stream).kind = "none"
    /\ cpc' = IF FoldEnd(cnt, consumed).ok THEN "ok" ELSE "err"
    /\ UNCHANGED <<args, content, stream, cnt, consumed, runVars>>

NextCount == FoldLine \/ FoldErr \/ FoldEof

SpecCount == InitCount /\ [][NextCount]_vars

\* ------------------------------------------------------------ properties
Metrics == {"lines", "words", "chars"}
Finished == pc \in {"return", "done"}
InFiles == args.files # <<>> /\ pc \in {"files", "return", "done"}

IsTotalRow(e) == e.kind = "row" /\ e.name = Some("total")
IsInputRow(e) == e.kind = "row" /\ e.name # Some("total")
TotalRows == {j \in 1 .. Len(out) : IsTotalRow(out[j])}
InputEvents == {j \in 1 .. Len(out) : ~IsTotalRow(out[j])}
Failures == {j \in 1 .. Len(out) : out[j].kind = "err"}

\* value of an optional metric, 0 when absent
ValueOf(o) == IF o = None THEN 0 ELSE Unwrap(o)

\* sum of metric m over the per-input rows among out[1 .. j]
RECURSIVE RowSum(_, _)
RowSum(m, j) ==
    IF j = 0 THEN 0
    ELSE (IF IsInputRow(out[j]) THEN ValueOf(out[j].cnt[m]) ELSE 0) + RowSum(m, j - 1)

\* sum of metric m over the inputs among out[1 .. j] that were read to completion
RECURSIVE CompleteSum(_, _)
CompleteSum(m, j) ==
    IF j = 0 THEN 0
    ELSE (IF out[j].fate = "complete" THEN ValueOf(out[j].cnt[m]) ELSE 0)
            + CompleteSum(m, j - 1)

\* sum of the byte-unit reference of the chars slot over the rows among out[1 .. j]
RECURSIVE RefBytesSum(_)
RefBytesSum(j) ==
    IF j = 0 THEN 0
    ELSE (IF IsInputRow(out[j]) THEN ValueOf(out[j].ref.bytes) ELSE 0) + RefBytesSum(j - 1)

\* the metrics present in a Count
Shape(c) == {m \in Metrics : c[m] # None}

\* the metrics the flags choose
ChosenMetrics(a) ==
    IF ~a.is_char /\ ~a.is_byte /\ ~a.is_line /\ ~a.is_word THEN Metrics
    ELSE {m \in Metrics : \/ m = "lines" /\ a.is_line
                          \/ m = "words" /\ a.is_word
                          \/ m = "chars" /\ (a.is_char \/ a.is_byte)}

\* C1: over named inputs, the total equals, metric by metric, the sum of the
\* Counts of exactly the inputs a row was printed for; an input that failed
\* to open or to be read adds nothing.
C1_TotalIsSumOfRows ==
    InFiles =>
        \A m \in Metrics :
            total[m] = IF m \in ChosenMetrics(args) THEN {RowSum(m, Len(out))} ELSE None

C1_Witness ==
    /\ pc = "done"
    /\ Len(args.files) = 2
    /\ \E i, j \in 1 .. Len(out) :
          /\ out[i].kind = "err"
          /\ IsInputRow(out[j]) /\ out[j].cnt.chars = {2}
    /\ total.chars = {2}

\* C2: the "total" row is printed iff more than one path was supplied, once,
\* after every per-input row and error, however many inputs succeeded; when
\* every input failed it shows every active metric at 0.
C2_TotalRowIffSeveralInputs ==
    /\ ~Finished => TotalRows = {}
    /\ Finished =>
          IF Len(args.files) > 1
          THEN /\ TotalRows = {Len(out)}
               /\ InputEvents = 1 .. Len(args.files)
               /\ (\A j \in InputEvents : out[j].kind = "err")
                     => \A m \in Metrics :
                           out[Len(out)].cnt[m] = IF m \in ChosenMetrics(args) THEN {0} ELSE None
          ELSE TotalRows = {}

C2_Witness ==
    /\ pc = "done"
    /\ Len(args.files) = 2
    /\ Len(out) = 3
    /\ out[1].kind = "err" /\ out[2].kind = "err"
    /\ IsTotalRow(out[3])

\* C3: the inputs are handled in the order supplied, one event per input,
\* a count row or an error naming it, in input order; a failure on one
\* input does not keep a later one from being opened and counted.
C3_OneEventPerInputInOrder ==
    /\ pc = "start" => out = <<>>
    /\ pc = "stdin" => out = <<>>
    /\ (pc = "files") => Len(out) = idx - 1
    /\ (Finished /\ args.files = <<>>) => Len(out) = 1 /\ out[1].name = None
    /\ (Finished /\ args.files # <<>>) => InputEvents = 1 .. Len(args.files)
    /\ InFiles =>
          \A j \in InputEvents :
              /\ out[j].name = Some(args.files[j])
              /\ out[j].kind \in {"row", "err"}
              /\ out[j].kind = "row" <=> out[j].fate = "complete"

C3_Witness ==
    /\ pc = "done"
    /\ Len(args.files) = 2
    /\ out[1].kind = "err" /\ out[1].name = Some("f1")
    /\ out[2].kind = "row" /\ out[2].name = Some("f2") /\ out[2].cnt.lines = {1}

\* C4: the run ends with a failure indication if an input failed to open or
\* to be read, and with success otherwise.
C4_ExitReportsFailure ==
    pc = "done" => (exit = "failure" <=> Failures # {})

\* C9: a read failure is treated alike for every input, standard input
\* included: an error and no row, and the lines consumed before the failure
\* are added neither to the total nor to a later input's Count.
C9_ReadFailureDropsPartial ==
    /\ \A j \in InputEvents :
          /\ out[j].fate = "badread" => out[j].kind = "err" /\ out[j].cnt = NoCount
          /\ out[j].fate = "complete" =>
                /\ out[j].kind = "row"
                /\ out[j].cnt.lines = out[j].ref.lines
                /\ out[j].cnt.words = out[j].ref.words
                /\ out[j].cnt.chars
                      = IF args.is_char THEN out[j].ref.uchars ELSE out[j].ref.bytes
    /\ InFiles =>
          \A m \in Metrics : ValueOf(total[m]) = CompleteSum(m, Len(out))

C9_Witness ==
    /\ pc = "done"
    /\ Len(args.files) = 2
    /\ out[1].fate = "badread" /\ out[1].consumed >= 1 /\ out[1].kind = "err"
    /\ out[2].kind = "row" /\ out[2].cnt.lines = {1}
    /\ total.lines = {1}

\* C8: with no flag set every printed row, per-input and total, carries
\* exactly lines, words and chars, and chars is counted in bytes, never in
\* Unicode scalar values.
C8_DefaultIsLinesWordsBytes ==
    (~args.is_char /\ ~args.is_byte /\ ~args.is_line /\ ~args.is_word) =>
        \A j \in 1 .. Len(out) :
            out[j].kind = "row" =>
                /\ \A m \in Metrics : Cardinality(out[j].cnt[m]) = 1
                /\ IsInputRow(out[j]) => out[j].cnt.chars = out[j].ref.bytes
                /\ IsTotalRow(out[j]) => out[j].cnt.chars = {RefBytesSum(Len(out))}

C8_Witness ==
    /\ ~args.is_char /\ ~args.is_byte /\ ~args.is_line /\ ~args.is_word
    /\ pc = "done"
    /\ Len(out) = 3
    /\ IsInputRow(out[1]) /\ out[1].ref.bytes # out[1].ref.uchars
    /\ IsInputRow(out[2])
    /\ IsTotalRow(out[3])

\* C10: in every state of a run the present metrics are the same in every
\* per-input Count, in the running total and in every printed row, and are
\* the ones the flags choose; no step makes an absent metric present or a
\* present one absent.
C10_ShapeIsFixed ==
    /\ \A j \in 1 .. Len(out) : out[j].kind = "row" => Shape(out[j].cnt) = ChosenMetrics(args)
    /\ InFiles => Shape(total) = ChosenMetrics(args)

C10_Witness ==
    /\ pc = "done"
    /\ args.is_byte /\ ~args.is_char /\ ~args.is_line /\ args.is_word
    /\ Len(out) = 3
    /\ IsInputRow(out[1]) /\ out[1].cnt.words = {1}
    /\ IsInputRow(out[2])
    /\ IsTotalRow(out[3]) /\ Shape(out[3].cnt) = {"words", "chars"}

\* C5: for a stream read to completion, count returns the initial Count with
\* each active metric increased by the line-wise reference sum: chars by the
\* sum of (unit length + 1), words by the sum of the runs of non-whitespace,
\* lines by the number of lines; an empty stream leaves them at 0.
C5_CountIsLinewiseSum ==
    cpc = "ok" =>
        /\ cnt.chars = {ValueOf(CountNew(args).chars) + RefChars(content, args.is_char)
                          : v \in CountNew(args).chars}
        /\ cnt.words = {ValueOf(CountNew(args).words) + RefWords(content)
                          : v \in CountNew(args).words}
        /\ cnt.lines = {ValueOf(CountNew(args).lines) + RefNumLines(content)
                          : v \in CountNew(args).lines}
        /\ content = <<>> => \A m \in Metrics : cnt[m] \subseteq {0}

C5_Witness ==
    /\ cpc = "ok"
    /\ args.is_char /\ args.is_word /\ args.is_line
    /\ cnt.lines = {2} /\ cnt.words = {2}
    /\ RefChars(content, TRUE) # RefChars(content, FALSE)

\* C6: with -c the chars slot reported for an input is the number of bytes
\* of the input, whatever its content (last line unterminated, CRLF line
\* endings) and also when -m is given with -c.
C6_BytesFlagReportsByteCount ==
    (cpc = "ok" /\ args.is_byte) => cnt.chars = {Len(content)}

\* C7: with -l the lines slot reported for an input is the number of newline
\* characters of the input, also when the last line is unterminated.
C7_LinesFlagReportsNewlines ==
    (cpc = "ok" /\ args.is_line) => cnt.lines = {RefNumLFs(content)}

====
